---- MODULE Spec2Model ----
(***************************************************************************)
(* ClipWise front end: the submission pipeline of the Home page            *)
(* (handleSubmit), the URL form (UrlInput), the response handling, and the *)
(* clip cards (ClipCard) the page renders for the published clips.         *)
(*                                                                         *)
(* JavaScript strings are sequences of chunks (TLA+ strings); the empty    *)
(* sequence is the empty string ''.  JavaScript values are tagged records. *)
(***************************************************************************)
EXTENDS Integers, Sequences, FiniteSets, TLC

(* ------------------------------ bounds -------------------------------- *)

\* longest clip array a response payload carries
MaxClips == 2

\* most downloads in flight and copy timers pending at once, over all cards
MaxPending == 2

(* --------------------------- JavaScript values ------------------------- *)

Undefined == [t |-> "undefined"]
Null == [t |-> "null"]
Bool(b) == [t |-> "bool", v |-> b]
Num(n) == [t |-> "num", v |-> n]
Str(s) == [t |-> "str", v |-> s]
Arr(s) == [t |-> "arr", v |-> s]
Obj(f) == [t |-> "obj", v |-> f]

\* an object with no own property
EmptyObj == Obj(<<>>)

\* ToBoolean: the test of `if (x)` and the left operand of `x || y`
Truthy(x) ==
    CASE x.t = "undefined" -> FALSE
      [] x.t = "null" -> FALSE
      [] x.t = "bool" -> x.v
      [] x.t = "num" -> x.v # 0
      [] x.t = "str" -> x.v # <<>>
      [] OTHER -> TRUE

\* x || y
OrElse(x, y) == IF Truthy(x) THEN x ELSE y

\* property access x.k throws a TypeError on null and undefined
CanRead(x) == x.t \notin {"undefined", "null"}

\* x.k for a value that can be read; primitives and arrays have none of the
\* keys read here, except that every array has a map method (see HasMap)
Get(x, k) ==
    IF x.t = "obj" /\ k \in DOMAIN x.v THEN x.v[k] ELSE Undefined

\* x.map is a function only for arrays
HasMap(x) == x.t = "arr"

(* ------------------------------ JSON text ------------------------------ *)

\* the double quote, and the escaped forms JSON.stringify gives it inside a
\* string literal (one and two levels deep)
Q == "\""
EQ == "\\\""
EEQ == "\\\\\\\""

NumToks == {ToString(n) : n \in 0..9}
NumOf(tok) == CHOOSE n \in 0..9 : ToString(n) = tok

EscTok(c) == IF c = Q THEN EQ ELSE IF c = EQ THEN EEQ ELSE c
UnescTok(c) == IF c = EQ THEN Q ELSE IF c = EEQ THEN EQ ELSE c

\* F(x) with x computed once, however often F uses its argument
With(x, F(_)) == CHOOSE y \in {F(v) : v \in {x}} : TRUE

\* the order in which the properties of an object are written
KeyOrder ==
    <<"youtube_url", "body", "video_id", "clips", "clip_id", "s3_url", "start_time">>

RECURSIVE Stringify(_)
RECURSIVE StringifyElems(_, _)
RECURSIVE StringifyMembers(_, _, _)

\* JSON.stringify(x): the text of x
Stringify(x) ==
    LET Text(val) ==
            CASE val.t = "null" -> <<"null">>
              [] val.t = "bool" -> IF val.v THEN <<"true">> ELSE <<"false">>
              [] val.t = "num" -> <<ToString(val.v)>>
              [] val.t = "str" ->
                   <<Q>> \o [i \in 1..Len(val.v) |-> EscTok(val.v[i])] \o <<Q>>
              [] val.t = "arr" -> <<"[">> \o StringifyElems(val.v, 1) \o <<"]">>
              [] val.t = "obj" ->
                   <<"{">> \o StringifyMembers(val.v, 1, TRUE) \o <<"}">>
              [] OTHER -> <<>>
    IN  With(x, Text)

\* elements i.. of an array; undefined elements are written as null
StringifyElems(s, i) ==
    IF i > Len(s) THEN <<>>
    ELSE (IF i > 1 THEN <<",">> ELSE <<>>)
         \o (IF s[i].t = "undefined" THEN <<"null">> ELSE Stringify(s[i]))
         \o StringifyElems(s, i + 1)

\* properties KeyOrder[i].. of an object; a property whose value is
\* undefined is left out
StringifyMembers(f, i, first) ==
    IF i > Len(KeyOrder) THEN <<>>
    ELSE LET k == KeyOrder[i] IN
         IF k \in DOMAIN f /\ f[k].t # "undefined"
         THEN (IF first THEN <<>> ELSE <<",">>)
              \o <<Q, k, Q, ":">> \o Stringify(f[k])
              \o StringifyMembers(f, i + 1, FALSE)
         ELSE StringifyMembers(f, i + 1, first)

ParseFail == [ok |-> FALSE, val |-> Null, next |-> 0]
ParseOk(v, n) == [ok |-> TRUE, val |-> v, next |-> n]

\* a string literal that opens at s[i] = Q: it runs to the next Q
ParseString(s, i) ==
    LET Closes(j) == s[j] = Q /\ \A d \in (i + 1)..(j - 1) : s[d] # Q
        Literal(j) ==
            ParseOk(Str([k \in 1..(j - i - 1) |-> UnescTok(s[i + k])]), j + 1)
    IN  IF \E j \in (i + 1)..Len(s) : Closes(j)
        THEN With(CHOOSE j \in (i + 1)..Len(s) : Closes(j), Literal)
        ELSE ParseFail

RECURSIVE ParseValue(_, _)
RECURSIVE ParseElems(_, _, _)
RECURSIVE ParseMembers(_, _, _)

\* the JSON value that starts at s[i]
ParseValue(s, i) ==
    IF i > Len(s) THEN ParseFail
    ELSE LET c == s[i] IN
         CASE c = Q -> ParseString(s, i)
           [] c = "null" -> ParseOk(Null, i + 1)
           [] c = "true" -> ParseOk(Bool(TRUE), i + 1)
           [] c = "false" -> ParseOk(Bool(FALSE), i + 1)
           [] c \in NumToks -> ParseOk(Num(NumOf(c)), i + 1)
           [] c = "[" ->
                IF i + 1 <= Len(s) /\ s[i + 1] = "]"
                THEN ParseOk(Arr(<<>>), i + 2)
                ELSE ParseElems(s, i + 1, <<>>)
           [] c = "{" ->
                IF i + 1 <= Len(s) /\ s[i + 1] = "}"
                THEN ParseOk(EmptyObj, i + 2)
                ELSE ParseMembers(s, i + 1, <<>>)
           [] OTHER -> ParseFail

\* the elements of an array from s[i] on, acc being those already read
ParseElems(s, i, acc) ==
    LET Rest(r) ==
            IF ~r.ok \/ r.next > Len(s) THEN ParseFail
            ELSE IF s[r.next] = ","
            THEN ParseElems(s, r.next + 1, Append(acc, r.val))
            ELSE IF s[r.next] = "]"
            THEN ParseOk(Arr(Append(acc, r.val)), r.next + 1)
            ELSE ParseFail
    IN  With(ParseValue(s, i), Rest)

\* the members of an object from s[i] on, acc being those already read; a
\* key that comes twice keeps its last value
ParseMembers(s, i, acc) ==
    IF i > Len(s) \/ s[i] # Q THEN ParseFail
    ELSE LET Member(ks) ==
                 IF ~ks.ok \/ Len(ks.val.v) # 1 \/ ks.next > Len(s)
                    \/ s[ks.next] # ":"
                 THEN ParseFail
                 ELSE LET Rest(r) ==
                              IF ~r.ok \/ r.next > Len(s) THEN ParseFail
                              ELSE IF s[r.next] = ","
                              THEN ParseMembers(s, r.next + 1,
                                                (ks.val.v[1] :> r.val) @@ acc)
                              ELSE IF s[r.next] = "}"
                              THEN ParseOk(Obj((ks.val.v[1] :> r.val) @@ acc),
                                           r.next + 1)
                              ELSE ParseFail
                      IN  With(ParseValue(s, ks.next + 1), Rest)
         IN  With(ParseString(s, i), Member)

\* JSON.parse(text): ok is FALSE where it throws a SyntaxError
JSONParse(text) ==
    LET Whole(s) ==
            LET End(r) == IF r.ok /\ r.next = Len(s) + 1 THEN r ELSE ParseFail
            IN  With(ParseValue(s, 1), End)
    IN  With(text, Whole)

\* String(x), the conversion JSON.parse applies to an argument that is not
\* a string
ToStr(x) ==
    CASE x.t = "str" -> x.v
      [] x.t = "obj" -> <<"[object Object]">>
      [] x.t = "undefined" -> <<"undefined">>
      [] OTHER -> Stringify(x)

(* ------------------------- UrlInput: the URL text ----------------------- *)

WhiteSpace == {" ", "\n"}
LineTerminators == {"\n"}

RECURSIVE TrimStart(_)
TrimStart(s) ==
    IF s # <<>> /\ Head(s) \in WhiteSpace THEN TrimStart(Tail(s)) ELSE s

RECURSIVE TrimEnd(_)
TrimEnd(s) ==
    IF s # <<>> /\ s[Len(s)] \in WhiteSpace
    THEN TrimEnd(SubSeq(s, 1, Len(s) - 1)) ELSE s

\* String.prototype.trim
Trim(s) == TrimEnd(TrimStart(s))

\* /^(https?:\/\/)?(www\.)?(youtube\.com|youtu\.be)\/.+/.test(u)
isValidYoutubeUrl(u) ==
    LET i1 == IF Len(u) >= 1 /\ u[1] \in {"http://", "https://"} THEN 2 ELSE 1
        i2 == IF Len(u) >= i1 /\ u[i1] = "www." THEN i1 + 1 ELSE i1
    IN  /\ Len(u) >= i2 + 2
        /\ u[i2] \in {"youtube.com", "youtu.be"}
        /\ u[i2 + 1] = "/"
        /\ u[i2 + 2] \notin LineTerminators

\* a button that only looks at emptiness and loading
submitDisabledNoPattern(u, loading) == Trim(u) = <<>> \/ loading

\* the submit button's `disabled` attribute
submitDisabled(u, loading) ==
    Trim(u) = <<>> \/ ~isValidYoutubeUrl(u) \/ loading

\* texts a user types or pastes
Texts ==
    { <<>>,
      <<" ">>,
      <<"not a url">>,
      <<"https://", "www.", "youtube.com", "/", "watch?v=abc123">>,
      <<"youtu.be", "/", "abc123", " ">>,
      <<" ", "youtu.be", "/", "abc123">>,
      <<"https://", "youtube.com", "/", " ">> }

(* --------------------------- the remote service ------------------------ *)

ClipA ==
    Obj([k \in {"clip_id", "s3_url", "start_time"} |->
            CASE k = "clip_id" -> Str(<<"c1">>)
              [] k = "s3_url" -> Str(<<"https://s3/c1.mp4">>)
              [] OTHER -> Num(0)])

\* a raw clip without start_time
ClipB ==
    Obj([k \in {"clip_id", "s3_url"} |->
            IF k = "clip_id" THEN Str(<<"c2">>) ELSE Str(<<"https://s3/c2.mp4">>)])

RawClips == {ClipA, ClipB}

ClipArrays == UNION {[1..n -> RawClips] : n \in 0..MaxClips}

VideoIds == {Str(<<>>), Str(<<"v1">>)}

\* the object { video_id: vid, clips: cl }; a field given as Undefined is absent
MkPayload(vid, cl) ==
    Obj([k \in ({"video_id" : x \in {vid} \ {Undefined}}
                \cup {"clips" : x \in {cl} \ {Undefined}}) |->
            IF k = "video_id" THEN vid ELSE cl])

Payloads ==
    {MkPayload(vid, cl) : vid \in VideoIds \cup {Undefined},
                          cl \in {Arr(a) : a \in ClipArrays} \cup {Undefined}}

\* { body: JSON.stringify(p) }
Envelope(p) == Obj("body" :> Str(Stringify(p)))

\* other bodies a service can send
OddBodies ==
    { Obj("body" :> Str(<<>>)),
      Obj(("body" :> Str(<<>>)) @@ MkPayload(Str(<<"v1">>), Arr(<<ClipA>>)).v),
      Obj("body" :> Str(<<"{">>)),
      Obj("body" :> Str(<<"null">>)),
      Obj("body" :> Num(5)),
      Obj(("body" :> Num(5)) @@ MkPayload(Str(<<"v1">>), Arr(<<ClipA>>)).v),
      Obj("body" :> EmptyObj),
      Null }

HttpResponse(ok, text) == [kind |-> "http", ok |-> ok, text |-> text]
NetworkError == [kind |-> "neterr", ok |-> FALSE, text |-> <<>>]
NoResponse == [kind |-> "none", ok |-> FALSE, text |-> <<>>]

NotJson == <<"<html>">>

\* the response that carries p itself, and the one that carries it wrapped
Direct == [p \in Payloads |-> HttpResponse(TRUE, Stringify(p))]
Wrapped == [p \in Payloads |-> HttpResponse(TRUE, Stringify(Envelope(p)))]
Odd == [b \in OddBodies |-> HttpResponse(TRUE, Stringify(b))]

Responses ==
    {NetworkError, HttpResponse(FALSE, NotJson), HttpResponse(TRUE, NotJson)}
    \cup {Direct[p] : p \in Payloads}
    \cup {Wrapped[p] : p \in Payloads}
    \cup {Odd[b] : b \in OddBodies}

(* -------------------------------- state -------------------------------- *)

VARIABLES
    url,          \* UrlInput: the text of the input field
    isLoading,    \* Home: a submission is being processed
    clips,        \* Home: the published clip list
    error,        \* Home: the error banner's text, '' for none
    videoId,      \* Home: the session identifier, '' for none
    debugData,    \* Home: what the debug panel shows, null for nothing
    consoleLog,   \* the clip objects written to the console
    inflight,     \* the requests sent and not yet answered, oldest first
    completed,    \* how the last run of Home.handleSubmit ended
    cards,        \* ClipCard: one card per rendered clip, in list order
    ev            \* the last event handled

vars ==
    <<url, isLoading, clips, error, videoId, debugData, consoleLog, inflight,
      completed, cards, ev>>

\* the state of Home that handleSubmit reads and writes
Cur ==
    [isLoading |-> isLoading, clips |-> clips, error |-> error,
     videoId |-> videoId, debugData |-> debugData, consoleLog |-> consoleLog,
     completed |-> completed]

\* an event of the page: card is 0, effects is empty
Event(op, text, resp) ==
    [op |-> op, text |-> text, resp |-> resp, card |-> 0, effects |-> {}]

\* an event of card i, with what the handler did outside React state
CardEvent(op, i, text, effects) ==
    [op |-> op, text |-> text, resp |-> NoResponse, card |-> i,
     effects |-> effects]

\* the session status the page shows: the spinner while isLoading, then the
\* outcome of the run of handleSubmit that ended last
status ==
    IF isLoading THEN "Pending"
    ELSE CASE completed = "none" -> "Idle"
           [] completed = "try" -> "Succeeded"
           [] OTHER -> "Failed"

(* ------------------------- ClipCard: mounting --------------------------- *)

\* setTimeout(() => setCopied(false), 2000)
CopiedDelayMs == 2000

\* the step by which time is seen to pass
TickMs == CopiedDelayMs

\* the state of a card when it mounts; downloads counts its fetches in
\* flight, timers holds the time left on each of its pending timeouts
FreshCard ==
    [loading |-> FALSE, showPreview |-> FALSE, copied |-> FALSE,
     liked |-> FALSE, playing |-> FALSE, downloads |-> 0, timers |-> <<>>]

\* the clips the results grid renders: clips?.length > 0 && clips.map(...)
Rendered(list) == IF list.t = "arr" THEN list.v ELSE <<>>

\* The cards after the list changes from `old` to `new`.  A card is keyed by
\* its clip_id: a clip whose key was rendered before keeps that card's
\* state, any other clip gets a fresh card, and the cards of clips that
\* are gone unmount.  What an unmounted card left pending still runs, but
\* its setState calls reach no component and it is followed no further.
Remount(oldCards, old, new) ==
    [i \in 1..Len(Rendered(new)) |->
        LET same == {j \in 1..Len(Rendered(old)) :
                        Get(Rendered(old)[j], "clip_id")
                            = Get(Rendered(new)[i], "clip_id")}
        IN  IF same = {} THEN FreshCard
            ELSE oldCards[CHOOSE j \in same : \A k \in same : j <= k]]

Init ==
    /\ url = <<>>
    /\ isLoading = FALSE
    /\ clips = Arr(<<>>)
    /\ error = <<>>
    /\ videoId = <<>>
    /\ debugData = Null
    /\ consoleLog = {}
    /\ inflight = <<>>
    /\ completed = "none"
    /\ cards = <<>>
    /\ ev = Event("mount", <<>>, NoResponse)

(* ------------------------------- UrlInput ------------------------------ *)

\* onChange of the input field, which is disabled while loading
ChangeUrl(t) ==
    /\ ~isLoading
    /\ url' = t
    /\ ev' = Event("change", t, NoResponse)
    /\ UNCHANGED <<isLoading, clips, error, videoId, debugData, consoleLog,
                   inflight, completed, cards>>

\* handlePaste: the clipboard's text replaces the field's text; a failed
\* read is written to the console and changes nothing
handlePaste(ok, t) ==
    /\ url' = IF ok THEN t ELSE url
    /\ ev' = Event(IF ok THEN "paste" ELSE "pasteFailed", url', NoResponse)
    /\ UNCHANGED <<isLoading, clips, error, videoId, debugData, consoleLog,
                   inflight, completed, cards>>

\* a request built from Home's own, never written, url state
ClipRequestOwnUrl(youtubeUrl) ==
    [endpoint |-> "http://127.0.0.1:5000/clip",
     method |-> "POST",
     body |-> Stringify(Obj("youtube_url" :> Str(<<>>)))]

\* the request Home.handleSubmit sends
ClipRequest(youtubeUrl) ==
    [endpoint |-> "http://127.0.0.1:5000/clip",
     method |-> "POST",
     body |-> Stringify(Obj("youtube_url" :> Str(youtubeUrl)))]

\* UrlInput.handleSubmit: whether the form hands its text to onSubmit
formAccepts(u, loading) == Trim(u) # <<>> /\ ~loading

\* A submit gesture on the form, the form seeing `loading` as its isLoading
\* prop.  A disabled submit button keeps the form from submitting; otherwise
\* UrlInput.handleSubmit runs and, if it accepts, Home.handleSubmit runs up
\* to its first await.  (The browser's own checking of the field's text is
\* not part of the page's code and is not modelled.)
SubmitWith(loading) ==
    /\ ev' = Event("submit", url, NoResponse)
    /\ IF ~submitDisabled(url, loading) /\ formAccepts(url, loading)
       THEN /\ isLoading' = TRUE
            /\ error' = <<>>
            /\ clips' = Arr(<<>>)
            /\ videoId' = <<>>
            /\ inflight' = Append(inflight, ClipRequest(Trim(url)))
            /\ cards' = Remount(cards, clips, Arr(<<>>))
       ELSE UNCHANGED <<isLoading, error, clips, videoId, inflight, cards>>
    /\ UNCHANGED <<url, debugData, consoleLog, completed>>

\* a form that keeps seeing the isLoading of its first render
SubmitFormStale == SubmitWith(FALSE)

SubmitForm == SubmitWith(isLoading)

(* ------------------- Home.handleSubmit after the await ------------------ *)

Thrown(isError, message) == [isError |-> isError, message |-> message]
NoThrow == Thrown(FALSE, <<>>)

Failure(err) == [ok |-> FALSE, data |-> Null, err |-> err]

\* a decoding that never unwraps an envelope
DecodeNoUnwrap(r) ==
    IF r.kind = "neterr"
    THEN Failure(Thrown(TRUE, <<"Failed to fetch">>))
    ELSE IF ~r.ok
    THEN Failure(Thrown(TRUE, <<"Failed to process video">>))
    ELSE LET AsIs(pj) ==
                 IF ~pj.ok
                 THEN Failure(Thrown(TRUE, <<"Unexpected token in JSON">>))
                 ELSE IF ~CanRead(pj.val)
                 THEN Failure(Thrown(TRUE,
                          <<"Cannot read properties of null (reading 'body')">>))
                 ELSE [ok |-> TRUE, data |-> pj.val, err |-> NoThrow]
         IN  With(JSONParse(r.text), AsIs)

\* lines 59-82: from the response to `data`, or to the exception thrown
Decode(r) ==
    IF r.kind = "neterr"
    THEN Failure(Thrown(TRUE, <<"Failed to fetch">>))
    ELSE IF ~r.ok
    THEN Failure(Thrown(TRUE, <<"Failed to process video">>))
    ELSE LET Unwrap(pj) ==
                 IF ~pj.ok
                 THEN Failure(Thrown(TRUE, <<"Unexpected token in JSON">>))
                 ELSE IF ~CanRead(pj.val)
                 THEN Failure(Thrown(TRUE,
                          <<"Cannot read properties of null (reading 'body')">>))
                 ELSE IF Truthy(Get(pj.val, "body"))
                 THEN LET Nested(pb) ==
                              IF pb.ok
                              THEN [ok |-> TRUE, data |-> pb.val, err |-> NoThrow]
                              ELSE Failure(Thrown(TRUE, <<"Unexpected token in JSON">>))
                      IN  With(JSONParse(ToStr(Get(pj.val, "body"))), Nested)
                 ELSE [ok |-> TRUE, data |-> pj.val, err |-> NoThrow]
         IN  With(JSONParse(r.text), Unwrap)

\* Decode of every response, computed once
Decoded == [r \in Responses |-> Decode(r)]

\* the clip objects a logged value shows
ClipsShown(x) ==
    LET arr == IF x.t = "arr" THEN x ELSE Get(x, "clips") IN
    IF arr.t = "arr" THEN {arr.v[i] : i \in 1..Len(arr.v)} ELSE {}

\* a clip list that keeps only the clips with a numeric start_time
PublishedClipsLenient(data) ==
    LET raw == OrElse(Get(data, "clips"), Arr(<<>>))
        WellFormed(c) == Get(c, "start_time").t = "num"
    IN  IF raw.t = "arr" THEN Arr(SelectSeq(raw.v, WellFormed)) ELSE raw

\* data.clips || []
PublishedClips(data) == OrElse(Get(data, "clips"), Arr(<<>>))

\* a session identifier read from a field the payload does not have
PublishedVideoIdWrongKey(data) == OrElse(Get(data, "videoId"), Str(<<>>))

\* data.video_id || ''
PublishedVideoId(data) == OrElse(Get(data, "video_id"), Str(<<>>))

\* { ...clip, s3_url: undefined }
Sanitize(clip) ==
    LET props == IF clip.t = "obj" THEN clip.v ELSE <<>> IN
    Obj([k \in DOMAIN props \cup {"s3_url"} |->
            IF k = "s3_url" THEN Undefined ELSE props[k]])

\* err instanceof Error ? err.message : 'An error occurred'
ErrorText(err) == IF err.isError THEN err.message ELSE <<"An error occurred">>

\* lines 84-95 for a decoded `data`: whether the setters of lines 87-88 run,
\* and the exception that ends the block early, if any
Publish(data) ==
    IF ~CanRead(data)
    THEN [set |-> FALSE,
          err |-> Thrown(TRUE, <<"Cannot read properties of null (reading 'clips')">>)]
    ELSE IF ~CanRead(Get(data, "clips"))
    THEN [set |-> TRUE,
          err |-> Thrown(TRUE, <<"Cannot read properties of undefined (reading 'map')">>)]
    ELSE IF ~HasMap(Get(data, "clips"))
    THEN [set |-> TRUE,
          err |-> Thrown(TRUE, <<"data.clips.map is not a function">>)]
    ELSE [set |-> TRUE, err |-> NoThrow]

\* the exception that ends the try block, NoThrow if it runs to its end
ThrownBy(d, p) == IF ~d.ok THEN d.err ELSE p.err

\* the state of Home after the try block, and the catch block if it threw,
\* d being the decoding of the response and p what lines 84-95 did with it
Settled(d, p, cur) ==
    [isLoading |-> cur.isLoading,
     consoleLog |-> IF d.ok THEN cur.consoleLog \cup ClipsShown(d.data)
                    ELSE cur.consoleLog,
     clips |-> IF d.ok /\ p.set THEN PublishedClips(d.data) ELSE cur.clips,
     videoId |-> IF d.ok /\ p.set THEN PublishedVideoId(d.data).v
                 ELSE cur.videoId,
     debugData |-> IF ThrownBy(d, p) # NoThrow THEN cur.debugData
                   ELSE Arr([i \in 1..Len(Get(d.data, "clips").v) |->
                               Sanitize(Get(d.data, "clips").v[i])]),
     error |-> IF ThrownBy(d, p) # NoThrow THEN ErrorText(ThrownBy(d, p))
               ELSE cur.error,
     completed |-> IF ThrownBy(d, p) # NoThrow THEN "catch" ELSE "try"]

\* lines 58-97: the try block and the catch block, run on the response r in
\* the state cur
TryCatch(r, cur) ==
    LET AfterDecode(d) == Settled(d, Publish(d.data), cur)
    IN  With(Decoded[r], AfterDecode)

\* a handler that stops loading at the end of the try block only
handleSubmitNoFinally(r, cur) ==
    LET SuccessOnly(t) == [t EXCEPT !.isLoading = (t.completed = "catch")]
    IN  With(TryCatch(r, cur), SuccessOnly)

\* lines 58-100: try, catch and the finally block
handleSubmitResume(r, cur) == [TryCatch(r, cur) EXCEPT !.isLoading = FALSE]

\* The outstanding call resolves with r and Home.handleSubmit runs to its end.
Respond(r) ==
    /\ inflight # <<>>
    /\ inflight' = Tail(inflight)
    /\ ev' = Event("respond", <<>>, r)
    /\ \E h \in {handleSubmitResume(r, Cur)} :
           /\ isLoading' = h.isLoading
           /\ consoleLog' = h.consoleLog
           /\ clips' = h.clips
           /\ videoId' = h.videoId
           /\ debugData' = h.debugData
           /\ error' = h.error
           /\ completed' = h.completed
           /\ cards' = Remount(cards, clips, h.clips)
    /\ UNCHANGED url

(* ------------------------------- ClipCard ------------------------------ *)

\* the page's own state, which no card handler writes
home ==
    <<url, isLoading, clips, error, videoId, debugData, consoleLog, inflight,
      completed>>

RECURSIVE PendingFrom(_, _)
\* the downloads in flight and timers pending on the cards i..
PendingFrom(cs, i) ==
    IF i > Len(cs) THEN 0
    ELSE cs[i].downloads + Len(cs[i].timers) + PendingFrom(cs, i + 1)

\* clip.s3_url of card i, as the text a collaborator is handed
MediaUrlOf(i) == ToStr(Get(Rendered(clips)[i], "s3_url"))

\* how navigator.clipboard.writeText can end: the promise resolves or the
\* promise rejects ("unavailable", a navigator.clipboard that is undefined,
\* is handled by copyUrl but not drawn as an input)
ClipboardOutcomes == {"written", "rejected"}

\* a copy that schedules no reset
copyUrlNoTimer(card, outcome) ==
    IF outcome = "unavailable" THEN card ELSE [card EXCEPT !.copied = TRUE]

\* copyUrl, lines 48-52: the write is not awaited; reading writeText of an
\* undefined navigator.clipboard throws before line 50
copyUrl(card, outcome) ==
    IF outcome = "unavailable" THEN card
    ELSE [card EXCEPT !.copied = TRUE, !.timers = Append(@, CopiedDelayMs)]

\* what copyUrl does outside the card's state: the clipboard call, and the
\* TypeError or the rejected promise nothing catches
copyUrlEffects(outcome) ==
    CASE outcome = "written" -> {"clipboardWrite"}
      [] outcome = "rejected" -> {"clipboardWrite", "clipboardRejected", "uncaught"}
      [] OTHER -> {"uncaught"}

\* a click on "Copy URL" of card i
CopyUrl(i, outcome) ==
    /\ i \in DOMAIN cards
    /\ PendingFrom(cards, 1) < MaxPending
    /\ cards' = [cards EXCEPT ![i] = copyUrl(@, outcome)]
    /\ ev' = CardEvent("copyUrl", i, MediaUrlOf(i), copyUrlEffects(outcome))
    /\ UNCHANGED home

\* TickMs pass; a timeout that is due runs before more time passes
Tick ==
    /\ \E i \in DOMAIN cards : cards[i].timers # <<>>
    /\ \A i \in DOMAIN cards :
          \A k \in DOMAIN cards[i].timers : cards[i].timers[k] > 0
    /\ cards' = [i \in DOMAIN cards |->
                    [cards[i] EXCEPT
                        !.timers = [k \in DOMAIN @ |-> @[k] - TickMs]]]
    /\ ev' = Event("tick", <<>>, NoResponse)
    /\ UNCHANGED home

\* the oldest timeout of card i is due: () => setCopied(false)
TimerFires(i) ==
    /\ i \in DOMAIN cards
    /\ cards[i].timers # <<>> /\ Head(cards[i].timers) = 0
    /\ cards' = [cards EXCEPT ![i] =
                    [@ EXCEPT !.copied = FALSE, !.timers = Tail(@)]]
    /\ ev' = CardEvent("copyTimer", i, <<>>, {})
    /\ UNCHANGED home

\* a like button that only ever sets the flag
toggleLikeSetOnly(card) == [card EXCEPT !.liked = TRUE]

\* the like button, line 222: setLiked(!liked)
toggleLike(card) == [card EXCEPT !.liked = ~@]

ToggleLike(i) ==
    /\ i \in DOMAIN cards
    /\ cards' = [cards EXCEPT ![i] = toggleLike(@)]
    /\ ev' = CardEvent("toggleLike", i, <<>>, {})
    /\ UNCHANGED home

\* how the fetch of the clip and the saving of its bytes can end: a success
\* status, an error status, a rejected fetch, a throw while saving
DownloadOutcomes == {"ok", "status403", "neterr", "saveThrew"}

\* handleDownload up to its first await, lines 55-58
handleDownload(card) ==
    [card EXCEPT !.loading = TRUE, !.downloads = @ + 1]

\* a download that stops loading at the end of the try block only
handleDownloadNoFinally(card, outcome) ==
    [card EXCEPT !.loading = (outcome \in {"neterr", "saveThrew"}),
                 !.downloads = @ - 1]

\* handleDownload after the await, lines 59-75: whatever happened, the
\* finally block stops loading
handleDownloadResume(card, outcome) ==
    [card EXCEPT !.loading = FALSE, !.downloads = @ - 1]

\* lines 58-72 outside the card's state: the body of any response, whatever
\* its status, is offered as a file; an exception is written to the console
handleDownloadEffects(outcome) ==
    IF outcome \in {"ok", "status403"} THEN {"fileSaved"} ELSE {"consoleError"}

\* a click on "Download" of card i
Download(i) ==
    /\ i \in DOMAIN cards
    /\ PendingFrom(cards, 1) < MaxPending
    /\ cards' = [cards EXCEPT ![i] = handleDownload(@)]
    /\ ev' = CardEvent("download", i, MediaUrlOf(i), {"fetch"})
    /\ UNCHANGED home

\* a fetch of card i ends and handleDownload runs to its end
DownloadSettles(i, outcome) ==
    /\ i \in DOMAIN cards
    /\ cards[i].downloads > 0
    /\ cards' = [cards EXCEPT ![i] = handleDownloadResume(@, outcome)]
    /\ ev' = CardEvent("downloadSettled", i, <<outcome>>,
                       handleDownloadEffects(outcome))
    /\ UNCHANGED home

\* what the platform gives the share button: navigator.share absent
\* ("none") or how its promise ends (a cancelled share rejects it, as a
\* failed one does), and how a clipboard write ends
Platforms ==
    {[share |-> "none", clipboard |-> c] : c \in {"written", "rejected"}}
    \cup {[share |-> sh, clipboard |-> "written"] : sh \in {"shared", "cancelled"}}

\* a share button without the clipboard fallback
shareNoFallback(card, platform) == card

\* the share button, lines 200-212: navigator.share(...).catch(console.error)
\* where the platform has it, copyUrl() otherwise
share(card, platform) ==
    IF platform.share # "none" THEN card
    ELSE copyUrl(card, platform.clipboard)

\* the share button outside the card's state
shareEffects(platform) ==
    IF platform.share # "none"
    THEN {"nativeShare"}
         \cup (IF platform.share = "shared" THEN {} ELSE {"consoleError"})
    ELSE copyUrlEffects(platform.clipboard)

\* a click on "Share" of card i
Share(i, platform) ==
    /\ i \in DOMAIN cards
    /\ PendingFrom(cards, 1) < MaxPending
    /\ cards' = [cards EXCEPT ![i] = share(@, platform)]
    /\ ev' = CardEvent("share", i, MediaUrlOf(i), shareEffects(platform))
    /\ UNCHANGED home

\* a video element without the autoPlay attribute
VideoNoAutoPlay(before, after, autoplayAllowed) ==
    IF after.showPreview THEN after ELSE [after EXCEPT !.playing = FALSE]

\* the <video autoPlay> of the preview modal, lines 94 and 119-128: it mounts
\* when showPreview turns true, playing if the browser allows autoplay, and
\* is gone when showPreview is false
Video(before, after, autoplayAllowed) ==
    IF after.showPreview /\ ~before.showPreview
    THEN [after EXCEPT !.playing = autoplayAllowed]
    ELSE IF ~after.showPreview THEN [after EXCEPT !.playing = FALSE]
    ELSE after

\* handlePreview, line 78
handlePreview(card) == [card EXCEPT !.showPreview = TRUE]

\* a click on the play button of card i
OpenPreview(i, autoplayAllowed) ==
    /\ i \in DOMAIN cards
    /\ cards' = [cards EXCEPT ![i] =
                    Video(@, handlePreview(@), autoplayAllowed)]
    /\ ev' = CardEvent("handlePreview", i,
                       <<IF autoplayAllowed THEN "autoplay" ELSE "blocked">>, {})
    /\ UNCHANGED home

\* the elements of the preview modal a click can land on, and the path the
\* click bubbles along from each
ClickTargets == {"video", "close", "backdrop"}
ClickPath(target) ==
    CASE target = "video" -> <<"video", "surface", "backdrop">>
      [] target = "close" -> <<"close", "surface", "backdrop">>
      [] OTHER -> <<"backdrop">>

RECURSIVE DispatchNoContainment(_, _, _)
\* a modal whose inner div does not stop the click
DispatchNoContainment(path, k, card) ==
    IF k > Len(path) THEN card
    ELSE IF path[k] \in {"close", "backdrop"}
    THEN DispatchNoContainment(path, k + 1, [card EXCEPT !.showPreview = FALSE])
    ELSE DispatchNoContainment(path, k + 1, card)

RECURSIVE Dispatch(_, _, _)
\* the onClick handlers of lines 97, 102 and 113 run along path[k..]: the
\* backdrop and the close button close the preview, the inner div stops the
\* click
Dispatch(path, k, card) ==
    IF k > Len(path) THEN card
    ELSE IF path[k] = "surface" THEN card
    ELSE IF path[k] \in {"close", "backdrop"}
    THEN Dispatch(path, k + 1, [card EXCEPT !.showPreview = FALSE])
    ELSE Dispatch(path, k + 1, card)

\* the video's own controls: a click on the video plays or pauses it
Controls(target, card) ==
    IF target = "video" THEN [card EXCEPT !.playing = ~@] ELSE card

\* a click inside the open preview modal of card i
PreviewClick(i, target) ==
    /\ i \in DOMAIN cards
    /\ cards[i].showPreview
    /\ cards' = [cards EXCEPT ![i] =
                    Video(@, Dispatch(ClickPath(target), 1, Controls(target, @)),
                          FALSE)]
    /\ ev' = CardEvent("click", i, <<target>>, {})
    /\ UNCHANGED home

\* the keys pressed and the elements that can hold the keyboard focus while
\* the preview is open; the click that opened it left the focus on the play
\* button of the page
Keys == {"Escape", "Tab"}
FocusPlaces == {"close", "page"}

\* onKeyDown of the close button, lines 107-112: it runs for a key pressed
\* while the button has the focus, and no other element handles keys
onKeyDown(card, key, focus) ==
    IF focus = "close" /\ key = "Escape"
    THEN [card EXCEPT !.showPreview = FALSE]
    ELSE card

\* a key goes down while the preview of card i is open
KeyDown(i, key, focus) ==
    /\ i \in DOMAIN cards
    /\ cards[i].showPreview
    /\ cards' = [cards EXCEPT ![i] = Video(@, onKeyDown(@, key, focus), FALSE)]
    /\ ev' = CardEvent("keydown", i, <<key, focus>>, {})
    /\ UNCHANGED home

\* the cards a page can show
CardIds == 1..MaxClips

\* the texts and responses the card specification drives the page with
CardTexts == {<<"https://", "www.", "youtube.com", "/", "watch?v=abc123">>}
CardResponses ==
    {NetworkError, Direct[MkPayload(Str(<<"v1">>), Arr(<<ClipA, ClipB>>))]}

CardStep ==
    \/ \E i \in CardIds, o \in ClipboardOutcomes : CopyUrl(i, o)
    \/ Tick
    \/ \E i \in CardIds : TimerFires(i)
    \/ \E i \in CardIds : ToggleLike(i)
    \/ \E i \in CardIds : Download(i)
    \/ \E i \in CardIds, o \in DownloadOutcomes : DownloadSettles(i, o)
    \/ \E i \in CardIds, pf \in Platforms : Share(i, pf)
    \/ \E i \in CardIds, a \in BOOLEAN : OpenPreview(i, a)
    \/ \E i \in CardIds, tg \in ClickTargets : PreviewClick(i, tg)
    \/ \E i \in CardIds, k \in Keys, f \in FocusPlaces : KeyDown(i, k, f)

Next ==
    \/ \E t \in Texts : ChangeUrl(t)
    \/ \E t \in Texts : handlePaste(TRUE, t)
    \/ handlePaste(FALSE, url)
    \/ SubmitForm
    \/ \E r \in Responses : Respond(r)

Spec == Init /\ [][Next]_vars

\* every outstanding call is eventually answered
FairSpec == Spec /\ WF_vars(\E r \in Responses : Respond(r))

\* the page driven by one URL and two responses, with its cards in use
CardNext ==
    \/ \E t \in CardTexts : ChangeUrl(t)
    \/ SubmitForm
    \/ \E r \in CardResponses : Respond(r)
    \/ CardStep

CardSpec == Init /\ [][CardNext]_vars

(* ------------------------------ properties ----------------------------- *)

\* the last event was the arrival of response r
Responded(r) == ev.op = "respond" /\ ev.resp = r

\* the last event was the arrival of payload p, bare or wrapped
Delivered(p) == Responded(Direct[p]) \/ Responded(Wrapped[p])

HasClips(p) == "clips" \in DOMAIN p.v
HasVideoId(p) == "video_id" \in DOMAIN p.v

\* the success-status responses whose body field is a string that is not
\* valid JSON
NestedInvalid ==
    {r \in Responses :
        /\ r.kind = "http" /\ r.ok
        /\ LET pj == JSONParse(r.text) IN
           /\ pj.ok
           /\ Get(pj.val, "body").t = "str"
           /\ ~JSONParse(Get(pj.val, "body").v).ok}

C2_InvalidSubmitIsInert ==
    [][(ev'.op = "submit" /\ ~isValidYoutubeUrl(url))
       => UNCHANGED <<isLoading, completed, clips, error, videoId, inflight>>]_vars

\* a submit of a non-empty text that is no URL, after a success
C2_Witness ==
    /\ ev.op = "submit" /\ url = ev.text
    /\ ~isValidYoutubeUrl(url) /\ Trim(url) # <<>>
    /\ status = "Succeeded" /\ inflight = <<>>

\* C3: a submit made while the session is Pending changes nothing, and in
\* every reachable state at most one request is outstanding.
C3_OneCallOutstanding ==
    /\ [](Len(inflight) <= 1)
    /\ [][(ev'.op = "submit" /\ status = "Pending")
          => UNCHANGED <<isLoading, completed, clips, error, videoId, inflight>>]_vars

\* a submit of a valid URL made while another URL's request is outstanding
C3_Witness ==
    /\ ev.op = "submit" /\ url = ev.text /\ isValidYoutubeUrl(url)
    /\ status = "Pending"
    /\ Len(inflight) = 1 /\ inflight[1] # ClipRequest(Trim(url))

\* C4: when the outstanding call resolves the session leaves Pending for
\* Succeeded or Failed, and every Pending session does get there once its
\* call resolves.
C4_PendingSettles ==
    /\ [][(Len(inflight') < Len(inflight))
          => (status = "Pending" /\ status' \in {"Succeeded", "Failed"})]_vars
    /\ (status = "Pending") ~> (status \in {"Succeeded", "Failed"})

\* a session settled by a success-status response that is not JSON
C4_Witness == Responded(HttpResponse(TRUE, NotJson)) /\ status = "Failed"

\* C5: after a transport failure, a non-success status, or a body whose
\* nested string is not valid JSON, the session is Failed with a non-empty
\* errorMessage and clips is empty.
C5_FailuresAreCaptured ==
    (ev.op = "respond"
       /\ (ev.resp.kind = "neterr" \/ ~ev.resp.ok \/ ev.resp \in NestedInvalid))
    => (status = "Failed" /\ error # <<>> /\ clips = Arr(<<>>))

\* C6: after a success-status response whose payload carries clips and
\* video_id, the session is Succeeded, clips is the payload's clip sequence
\* in the same order, sessionId is video_id and errorMessage is empty; an
\* empty clip sequence included.
C6_SuccessPublishesPayload ==
    \A p \in Payloads :
        (Delivered(p) /\ HasClips(p) /\ HasVideoId(p))
        => /\ status = "Succeeded"
           /\ clips = p.v["clips"]
           /\ videoId = p.v["video_id"].v
           /\ error = <<>>

\* two different clips published in the order they were sent
C6_Witness ==
    /\ Delivered(MkPayload(Str(<<"v1">>), Arr(<<ClipB, ClipA>>)))
    /\ clips = Arr(<<ClipB, ClipA>>) /\ videoId = <<"v1">>
    /\ status = "Succeeded"

\* C7: sessionId and a non-empty clips are set only when the session is
\* Succeeded, and errorMessage is set only when it is Failed.
C7_FieldsAgreeWithStatus ==
    /\ (videoId # <<>> => status = "Succeeded")
    /\ (clips # Arr(<<>>) => status = "Succeeded")
    /\ (error # <<>> => status = "Failed")

\* C8: after a success-status response whose payload has no clips field the
\* session is Succeeded with clips empty, and sessionId is '' when video_id
\* is absent too.
C8_MissingClipsDefault ==
    \A p \in Payloads :
        (Delivered(p) /\ ~HasClips(p))
        => /\ status = "Succeeded"
           /\ clips = Arr(<<>>)
           /\ (~HasVideoId(p) => videoId = <<>>)

\* C9: the arrival of { body: JSON.stringify(p) } leaves the session as the
\* arrival of p itself would have left it: same status, clips and sessionId.
C9_EnvelopeEquivalence ==
    [][\A p \in Payloads :
          (ev'.op = "respond" /\ ev'.resp = Wrapped[p])
          => LET h == handleSubmitResume(Direct[p], Cur) IN
             /\ isLoading' = h.isLoading
             /\ completed' = h.completed
             /\ clips' = h.clips
             /\ videoId' = h.videoId]_vars

\* a wrapped payload of two clips that ended Succeeded
C9_Witness ==
    /\ Responded(Wrapped[MkPayload(Str(<<"v1">>), Arr(<<ClipA, ClipB>>))])
    /\ status = "Succeeded" /\ clips = Arr(<<ClipA, ClipB>>)

\* a clip object with a numeric start_time
HasStartTime(c) == Get(c, "start_time").t = "num"

\* the payloads that mix a clip without start_time with a well-formed one
MixedPayloads ==
    {p \in Payloads :
        /\ HasClips(p)
        /\ \E i \in 1..Len(p.v["clips"].v) : ~HasStartTime(p.v["clips"].v[i])
        /\ \E i \in 1..Len(p.v["clips"].v) : HasStartTime(p.v["clips"].v[i])}

\* C10 as stated: the clip without start_time is left out of the published
\* list, the well-formed clips are kept and the session is Succeeded.
C10_MalformedClipDropped ==
    \A p \in MixedPayloads :
        Delivered(p)
        => /\ status = "Succeeded"
           /\ clips = Arr(SelectSeq(p.v["clips"].v, HasStartTime))

\* C10 as amended: a clip without start_time is published like any other;
\* the whole batch is kept, in order, and the session is Succeeded.
C10_MalformedClipKept ==
    \A p \in MixedPayloads :
        Delivered(p)
        => /\ status = "Succeeded"
           /\ clips = p.v["clips"]

\* a batch of a well-formed clip and one without start_time, both published
C10_Witness ==
    /\ Responded(Direct[MkPayload(Undefined, Arr(<<ClipA, ClipB>>))])
    /\ status = "Succeeded"
    /\ Len(clips.v) = 2 /\ ~HasStartTime(clips.v[2])

\* a clip object that carries its media URL
HoldsMediaUrl(c) == Get(c, "s3_url").t = "str"

\* the media URLs the service's clips carry
MediaUrls == {Get(c, "s3_url").v : c \in RawClips}

\* the chunks of the text the debug panel shows: JSON.stringify(debugData)
DebugPanelText ==
    IF Truthy(debugData)
    THEN {Stringify(debugData)[i] : i \in 1..Len(Stringify(debugData))}
    ELSE {}

\* C11: in every reachable state neither the debug data, nor the text the
\* debug panel shows for it, nor any clip object written to the console
\* carries the media URL (s3_url) of a clip.
C11_NoMediaUrlInDiagnostics ==
    /\ \A c \in ClipsShown(debugData) : ~HoldsMediaUrl(c)
    /\ \A u \in MediaUrls : \A k \in 1..Len(u) : u[k] \notin DebugPanelText
    /\ \A c \in consoleLog : ~HoldsMediaUrl(c)

(* ---------------------------- card properties --------------------------- *)

\* the last step was the event op of card i
CardDid(op, i) == ev.op = op /\ ev.card = i /\ i \in DOMAIN cards

\* card i is on the page
Mounted(i) == i \in DOMAIN cards

\* every card but card i is as it was
OthersKept(i) ==
    /\ DOMAIN cards' = DOMAIN cards
    /\ \A j \in DOMAIN cards : j # i => cards'[j] = cards[j]

\* C12: download() sets downloading when it starts; when the retrieval ends,
\* with a success, a failure or a throw while saving, downloading is reset,
\* and a failed download changes nothing but downloading: no other flag of
\* the card, no other card, no session state.  The reset is never lost: a
\* card that is downloading has a retrieval in flight, whose end resets it.
C12_DownloadAlwaysResets ==
    /\ [][\A i \in CardIds :
             (ev'.op = "download" /\ ev'.card = i) => cards'[i].loading]_vars
    /\ [][\A i \in CardIds :
             (ev'.op = "downloadSettled" /\ ev'.card = i)
             => /\ ~cards'[i].loading
                /\ ev'.text # <<"ok">>
                   => /\ cards' = [cards EXCEPT ![i].loading = FALSE,
                                                ![i].downloads = @ - 1]
                      /\ UNCHANGED home]_vars
    /\ [](\A i \in DOMAIN cards : cards[i].loading => cards[i].downloads > 0)

\* a download that threw while saving, on a liked card whose link is copied
\* and whose preview is open
C12_Witness ==
    /\ CardDid("downloadSettled", 1) /\ ev.text = <<"saveThrew">>
    /\ ~cards[1].loading
    /\ cards[1].liked /\ cards[1].copied /\ cards[1].showPreview
    /\ status = "Succeeded"

\* C13: a successful copyLink() sets the card's linkCopied and schedules its
\* reset after 2000 ms; the reset runs when that delay has elapsed and turns
\* the flag off; a card whose flag is on has a reset pending; neither step
\* changes another card.
C13_CopiedRevertsAfterDelay ==
    /\ [][\A i \in CardIds :
             (ev'.op = "copyUrl" /\ ev'.card = i
                /\ ev'.effects = {"clipboardWrite"})
             => /\ cards'[i].copied
                /\ cards'[i].timers = Append(cards[i].timers, 2000)
                /\ OthersKept(i)]_vars
    /\ [][\A i \in CardIds :
             (ev'.op = "copyTimer" /\ ev'.card = i)
             => /\ Head(cards[i].timers) = 0
                /\ ~cards'[i].copied
                /\ OthersKept(i)]_vars
    /\ [](\A i \in DOMAIN cards : cards[i].copied => cards[i].timers # <<>>)

\* the reset of card 2 has run while card 1 stays copied, liked and open
C13_Witness ==
    /\ CardDid("copyTimer", 2) /\ ~cards[2].copied
    /\ cards[1].copied /\ cards[1].liked /\ cards[1].showPreview

\* C14: when the clipboard write of copyLink() fails, the card is left as it
\* was (linkCopied does not turn true), the page shows no error, and nothing
\* is left uncaught.
C14_FailedCopyIsSilent ==
    [][\A i \in CardIds :
          (ev'.op = "copyUrl" /\ ev'.card = i
             /\ "clipboardRejected" \in ev'.effects)
          => /\ cards'[i] = cards[i]
             /\ error' = error
             /\ "uncaught" \notin ev'.effects]_vars

\* C15: toggleLike() flips liked and nothing else, calls no collaborator,
\* and applied twice gives back the card it started from, whatever liked
\* was.
C15_LikeTwiceRestores ==
    /\ [][\A i \in CardIds :
             (ev'.op = "toggleLike" /\ ev'.card = i)
             => /\ cards' = [cards EXCEPT ![i].liked = ~cards[i].liked]
                /\ ev'.effects = {}
                /\ UNCHANGED home]_vars
    /\ [](\A i \in DOMAIN cards : toggleLike(toggleLike(cards[i])) = cards[i])

\* a toggle that has turned liked off again, on a card with a download in
\* flight
C15_Witness ==
    /\ CardDid("toggleLike", 1) /\ ~cards[1].liked
    /\ cards[1].loading /\ cards[2].liked

\* C16: share() hands the clip's mediaUrl to the native share where the
\* platform has one, and then changes no card and no session state and
\* leaves nothing uncaught, also when the share is cancelled; without a
\* native share it does what copyLink() does.
C16_ShareDelegatesOrCopies ==
    [][\A i \in CardIds :
          (ev'.op = "share" /\ ev'.card = i)
          => /\ UNCHANGED home
             /\ ev'.text = Get(Rendered(clips)[i], "s3_url").v
             /\ IF "nativeShare" \in ev'.effects
                THEN /\ cards' = cards
                     /\ ev'.effects \subseteq {"nativeShare", "consoleError"}
                ELSE \E o \in ClipboardOutcomes :
                        /\ cards' = [cards EXCEPT ![i] = copyUrl(cards[i], o)]
                        /\ ev'.effects = copyUrlEffects(o)]_vars

\* a cancelled native share on a card whose link is copied
C16_Witness ==
    /\ CardDid("share", 2)
    /\ ev.effects = {"nativeShare", "consoleError"}
    /\ cards[2].copied /\ ~cards[1].copied

\* the status changes the session may take
AllowedTransitions ==
    { <<"Idle", "Pending">>, <<"Pending", "Succeeded">>, <<"Pending", "Failed">>,
      <<"Succeeded", "Pending">>, <<"Failed", "Pending">>,
      <<"Pending", "Idle">>, <<"Succeeded", "Idle">>, <<"Failed", "Idle">> }

\* C17: every step that changes the session status takes one of the
\* transitions Idle -> Pending, Pending -> Succeeded, Pending -> Failed,
\* Succeeded -> Pending, Failed -> Pending, or any -> Idle.
C17_OnlyValidTransitions ==
    [][status' # status => <<status, status'>> \in AllowedTransitions]_vars

\* a resubmission after a success, the first session having failed before
C17_Witness ==
    /\ ev.op = "submit" /\ status = "Pending" /\ completed = "try"
    /\ debugData # Null /\ Len(inflight) = 1

\* the decoding the envelope rule describes: a body of string type is
\* parsed, anything else leaves the object as it is
DecodeByStringType(r) ==
    IF r.kind = "neterr"
    THEN Failure(Thrown(TRUE, <<"Failed to fetch">>))
    ELSE IF ~r.ok
    THEN Failure(Thrown(TRUE, <<"Failed to process video">>))
    ELSE LET Unwrap(pj) ==
                 IF ~pj.ok
                 THEN Failure(Thrown(TRUE, <<"Unexpected token in JSON">>))
                 ELSE IF Get(pj.val, "body").t = "str"
                 THEN LET Nested(pb) ==
                              IF pb.ok
                              THEN [ok |-> TRUE, data |-> pb.val, err |-> NoThrow]
                              ELSE Failure(Thrown(TRUE, <<"Unexpected token in JSON">>))
                      IN  With(JSONParse(Get(pj.val, "body").v), Nested)
                 ELSE [ok |-> TRUE, data |-> pj.val, err |-> NoThrow]
         IN  With(JSONParse(r.text), Unwrap)

\* the session a response leaves behind when it is decoded by that rule
ByStringType(r) ==
    LET AfterDecode(d) ==
            Settled(d, Publish(d.data),
                    [Cur EXCEPT !.clips = Arr(<<>>), !.videoId = <<>>,
                                !.error = <<>>])
    IN  With(DecodeByStringType(r), AfterDecode)

\* C18: the envelope is unwrapped exactly when body is of string type: after
\* any success-status response that is a JSON object, the session is what
\* parsing a string body (the empty string included), and using an object
\* without a string body as it is, makes it.
C18_EnvelopeByStringType ==
    (ev.op = "respond" /\ ev.resp.kind = "http" /\ ev.resp.ok
       /\ JSONParse(ev.resp.text).ok /\ JSONParse(ev.resp.text).val.t = "obj")
    => \E e \in {ByStringType(ev.resp)} :
          /\ completed = e.completed
          /\ clips = e.clips
          /\ videoId = e.videoId

\* C19: while a preview is open, the close control and the dismiss key both
\* close it, a click on the video leaves it open, and the only clicks that
\* close it are those on the backdrop and on the close control.
C19_PreviewCloses ==
    [][\A i \in CardIds :
          (ev'.card = i /\ Mounted(i) /\ cards[i].showPreview)
          => /\ (ev'.op = "click" /\ ev'.text = <<"close">>)
                => ~cards'[i].showPreview
             /\ (ev'.op = "keydown" /\ ev'.text[1] = "Escape")
                => ~cards'[i].showPreview
             /\ (ev'.op = "click" /\ ev'.text = <<"video">>)
                => cards'[i].showPreview
             /\ (ev'.op = "click" /\ ~cards'[i].showPreview)
                => ev'.text \in {<<"backdrop">>, <<"close">>}]_vars

\* C20 as stated: opening the preview sets previewOpen and does not start
\* playback; the clip starts to play only by a click on the video's
\* controls.
C20_OpenDoesNotPlay ==
    [][\A i \in CardIds :
          (ev'.card = i /\ Mounted(i))
          => /\ ev'.op = "handlePreview"
                => (cards'[i].showPreview /\ ~cards'[i].playing)
             /\ (cards'[i].playing /\ ~cards[i].playing)
                => (ev'.op = "click" /\ ev'.text = <<"video">>)]_vars

\* C20 as amended: opening the preview sets previewOpen and, where the
\* browser allows autoplay, starts playback there and then; a preview that
\* was open already is left playing or paused as it was.
C20_OpenStartsPlayback ==
    [][\A i \in CardIds :
          (ev'.op = "handlePreview" /\ ev'.card = i)
          => /\ cards'[i].showPreview
             /\ cards'[i].playing =
                   IF cards[i].showPreview THEN cards[i].playing
                   ELSE ev'.text = <<"autoplay">>
             /\ OthersKept(i)
             /\ UNCHANGED home]_vars

\* a preview that plays right after it was opened
C20_Witness ==
    /\ CardDid("handlePreview", 1) /\ ev.text = <<"autoplay">>
    /\ cards[1].showPreview /\ cards[1].playing
    /\ ~cards[2].showPreview

\* C21: a card is downloading in every state in which a retrieval of its
\* clip is in flight, also when download() was invoked again before an
\* earlier retrieval had ended.
C21_DownloadingWhileInFlight ==
    \A i \in DOMAIN cards : cards[i].downloads > 0 => cards[i].loading

\* C22: no reset scheduled by an earlier copyLink() turns linkCopied off
\* before the delay has elapsed since the most recent successful copy: a
\* reset that runs right after a successful copy, no time having passed,
\* leaves the flag on.
C22_NoEarlyReset ==
    [][\A i \in CardIds :
          (ev.op = "copyUrl" /\ ev.card = i /\ ev.effects = {"clipboardWrite"}
             /\ ev'.op = "copyTimer" /\ ev'.card = i)
          => cards'[i].copied]_vars

\* the youtube_url a request carries
SentUrl(req) == Get(JSONParse(req.body).val, "youtube_url").v

\* C23: every text the form hands to the submission handler, and so every
\* youtube_url sent, matches the URL pattern itself.
C23_SubmittedUrlIsValid ==
    [][(ev'.op = "submit" /\ Len(inflight') > Len(inflight))
       => isValidYoutubeUrl(SentUrl(inflight'[Len(inflight')]))]_vars

\* C24: debug data is held only for the current session: none while a
\* submission is Pending or after it has Failed, and after a success it is
\* the published clips, their media URLs removed.
C24_DebugDataIsCurrent ==
    /\ status \in {"Pending", "Failed"} => debugData = Null
    /\ (status = "Succeeded" /\ debugData # Null)
       => debugData = Arr([i \in 1..Len(Rendered(clips)) |->
                             Sanitize(Rendered(clips)[i])])

\* C25: download() offers a file only when the retrieval returned a success
\* status; any other end of the retrieval is handled as a failure.
C25_SaveOnlyOnSuccess ==
    [][ev'.op = "downloadSettled"
       => /\ "fileSaved" \in ev'.effects => ev'.text = <<"ok">>
          /\ ev'.text # <<"ok">> => "consoleError" \in ev'.effects]_vars

====
